---------------------------- MODULE Spec2Model ----------------------------
(* AION setup wizard (crates/aion/src/tui/wizard.rs) and configuration     *)
(* model (crates/aion/src/config/mod.rs).                                   *)
(*                                                                          *)
(* Strings the code trims or edits character by character (model name,     *)
(* base_url, api_key_env, the model input buffer) are sequences of         *)
(* one-character strings.  Language codes are only compared for equality,  *)
(* so they are atomic strings.                                             *)
EXTENDS Integers, Sequences, FiniteSets, TLC

VARIABLES
    pc,             \* position of run(): "start","new","clear","loop","dropping","returned"; "config" in SpecConfig
    raw_mode,       \* terminal: raw mode enabled
    alt_screen,     \* terminal: alternate screen entered
    guard,          \* a TerminalGuard value is alive in run()'s scope
    existing,       \* the caller's configuration, borrowed by run()
    draft,          \* run()'s clone of existing
    step,           \* ui.step
    status,         \* ui.status
    lang_idx,       \* ui.lang_state.selected()
    provider_idx,   \* ui.provider_state.selected()
    model_input,    \* ui.model_input
    use_colors,     \* ui.use_colors
    use_animation,  \* ui.use_animation
    tick,           \* ui.tick
    result,         \* what run() returned to its caller
    exit_event,     \* history: the key press and step on which run() returned
    script,         \* key presses the user is still going to make (scenario runs)
    cfg,            \* configuration value under test (SpecConfig)
    verdict,        \* result of the last validate(cfg) (SpecConfig)
    applied,        \* history: the kinds passed to cfg.set_provider_kind so far (SpecConfig)
    replay,         \* history: which of two runs on the same keys this is, the keys,
                    \* and what the first run showed after each key (SpecTiming)
    saved           \* history: the configurations main passed to save_config
                    \* after the wizard returned (SpecMain)

vars == <<pc, raw_mode, alt_screen, guard, existing, draft, step, status,
          lang_idx, provider_idx, model_input, use_colors, use_animation,
          tick, result, exit_event, script, cfg, verdict, applied, replay, saved>>

\* the locals of run(): ui and draft
localVars == <<draft, step, status, lang_idx, provider_idx, model_input,
               use_colors, use_animation, tick>>

-----------------------------------------------------------------------------
(* Bounds *)

\* the animation tick counter stops advancing here (u64 in the code)
MaxTick == 1

\* characters a run may append to the model input buffer
MaxTyped == 1

\* calls of set_provider_kind on one configuration value
MaxApply == 2

\* key presses fed to each of two compared runs
MaxKeys == 4

-----------------------------------------------------------------------------
(* Characters and strings *)

\* char::is_whitespace, restricted to the characters the model uses
WhitespaceChars == {" ", "\t", "\n"}

\* char::is_control, restricted to the characters the model uses
ControlChars == {"\t", "\n"}

is_control(c) == c \in ControlChars

RECURSIVE trim_start(_)
trim_start(s) ==
    IF s = <<>> THEN <<>>
    ELSE IF Head(s) \in WhitespaceChars THEN trim_start(Tail(s))
    ELSE s

RECURSIVE trim_end(_)
trim_end(s) ==
    IF s = <<>> THEN <<>>
    ELSE IF s[Len(s)] \in WhitespaceChars THEN trim_end(SubSeq(s, 1, Len(s) - 1))
    ELSE s

\* trim that strips leading whitespace only
trim_StartOnly(s) == trim_start(s)

\* str::trim
trim(s) == trim_end(trim_start(s))

\* is_empty that never says so
is_empty_Never(s) == FALSE

\* str::is_empty
is_empty(s) == Len(s) = 0

\* Option<String>
None == [tag |-> "None"]
Some(s) == [tag |-> "Some", val |-> s]

\* Option::as_deref().unwrap_or("")
unwrap_or_empty(o) == IF o.tag = "Some" THEN o.val ELSE <<>>

\* String::pop
pop(s) == IF s = <<>> THEN <<>> ELSE SubSeq(s, 1, Len(s) - 1)

-----------------------------------------------------------------------------
(* config/mod.rs *)

ProviderKind == {"OpenAI", "Claude", "OpenRouter", "Ollama"}

UiMode == {"Tui", "Cli"}

CURRENT_VERSION == 1

allowed_languages == {"en", "ar"}

default_api_key_env(kind) ==
    CASE kind = "OpenAI" ->
           Some(<<"O","P","E","N","A","I","_","A","P","I","_","K","E","Y">>)
      [] kind = "Claude" ->
           Some(<<"A","N","T","H","R","O","P","I","C","_","A","P","I","_","K","E","Y">>)
      [] kind = "OpenRouter" ->
           Some(<<"O","P","E","N","R","O","U","T","E","R","_","A","P","I","_","K","E","Y">>)
      [] kind = "Ollama" -> None

\* default_base_url without the Ollama arm
default_base_url_NoOllama(kind) ==
    CASE kind = "OpenRouter" ->
           Some(<<"h","t","t","p","s",":","/","/","o","p","e","n","r","o","u","t",
                  "e","r",".","a","i","/","a","p","i","/","v","1">>)
      [] OTHER -> None

default_base_url(kind) ==
    CASE kind = "OpenRouter" ->
           Some(<<"h","t","t","p","s",":","/","/","o","p","e","n","r","o","u","t",
                  "e","r",".","a","i","/","a","p","i","/","v","1">>)
      [] kind = "Ollama" ->
           Some(<<"h","t","t","p",":","/","/","l","o","c","a","l","h","o","s","t",
                  ":","1","1","4","3","4">>)
      [] OTHER -> None

default_model(kind) ==
    CASE kind = "OpenAI" -> <<"g","p","t","-","4",".","1","-","m","i","n","i">>
      [] kind = "Claude" ->
           <<"c","l","a","u","d","e","-","3","-","5","-","s","o","n","n","e","t",
             "-","l","a","t","e","s","t">>
      [] kind = "OpenRouter" ->
           <<"o","p","e","n","a","i","/","g","p","t","-","4","o","-","m","i","n","i">>
      [] kind = "Ollama" -> <<"m","i","s","t","r","a","l">>

DefaultFeatures ==
    [system_scan |-> TRUE, web_in_terminal |-> TRUE,
     command_suggestions |-> TRUE, safe_execute |-> TRUE]

DefaultCaps ==
    [read_files |-> TRUE, write_files |-> FALSE, network |-> TRUE,
     run_commands |-> FALSE]

new_default ==
    [version  |-> CURRENT_VERSION,
     language |-> "en",
     ui_mode  |-> "Tui",
     provider |-> [kind        |-> "Ollama",
                   model       |-> default_model("Ollama"),
                   base_url    |-> default_base_url("Ollama"),
                   api_key_env |-> default_api_key_env("Ollama")],
     features |-> DefaultFeatures,
     caps     |-> DefaultCaps]

\* Result<(), ConfigError>
Ok == [tag |-> "Ok"]
UnsupportedVersion(v) == [tag |-> "Err", kind |-> "UnsupportedVersion", version |-> v]
InvalidLanguage(l) == [tag |-> "Err", kind |-> "InvalidLanguage", language |-> l]
EmptyModel == [tag |-> "Err", kind |-> "EmptyModel"]
MissingBaseUrl == [tag |-> "Err", kind |-> "MissingBaseUrl"]
MissingApiKeyEnv == [tag |-> "Err", kind |-> "MissingApiKeyEnv"]

\* validate_provider with the Ollama arm accepting anything
validate_provider_OllamaUnchecked(p) ==
    CASE p.kind = "OpenRouter" ->
           IF is_empty(trim(unwrap_or_empty(p.base_url))) THEN MissingBaseUrl
           ELSE IF is_empty(trim(unwrap_or_empty(p.api_key_env))) THEN MissingApiKeyEnv
           ELSE Ok
      [] p.kind = "Ollama" -> Ok
      [] p.kind \in {"OpenAI", "Claude"} ->
           IF is_empty(trim(unwrap_or_empty(p.api_key_env))) THEN MissingApiKeyEnv
           ELSE Ok

\* the match on self.provider.kind at the end of validate
validate_provider(p) ==
    CASE p.kind = "OpenRouter" ->
           IF is_empty(trim(unwrap_or_empty(p.base_url))) THEN MissingBaseUrl
           ELSE IF is_empty(trim(unwrap_or_empty(p.api_key_env))) THEN MissingApiKeyEnv
           ELSE Ok
      [] p.kind = "Ollama" ->
           IF is_empty(trim(unwrap_or_empty(p.base_url))) THEN MissingBaseUrl
           ELSE Ok
      [] p.kind \in {"OpenAI", "Claude"} ->
           IF is_empty(trim(unwrap_or_empty(p.api_key_env))) THEN MissingApiKeyEnv
           ELSE Ok

\* the provider arms of validate with OpenRouter's two checks swapped
validate_provider_KeyFirst(p) ==
    CASE p.kind = "OpenRouter" ->
           IF is_empty(trim(unwrap_or_empty(p.api_key_env))) THEN MissingApiKeyEnv
           ELSE IF is_empty(trim(unwrap_or_empty(p.base_url))) THEN MissingBaseUrl
           ELSE Ok
      [] p.kind = "Ollama" ->
           IF is_empty(trim(unwrap_or_empty(p.base_url))) THEN MissingBaseUrl
           ELSE Ok
      [] p.kind \in {"OpenAI", "Claude"} ->
           IF is_empty(trim(unwrap_or_empty(p.api_key_env))) THEN MissingApiKeyEnv
           ELSE Ok

\* validate with the language check ahead of the version check and
\* OpenRouter's api_key_env check ahead of its base_url check
validate_Reordered(c) ==
    IF c.language \notin allowed_languages THEN InvalidLanguage(c.language)
    ELSE IF c.version # CURRENT_VERSION THEN UnsupportedVersion(c.version)
    ELSE IF is_empty(trim(c.provider.model)) THEN EmptyModel
    ELSE validate_provider_KeyFirst(c.provider)

\* AppConfig::validate
validate(c) ==
    IF c.version # CURRENT_VERSION THEN UnsupportedVersion(c.version)
    ELSE IF c.language \notin allowed_languages THEN InvalidLanguage(c.language)
    ELSE IF is_empty(trim(c.provider.model)) THEN EmptyModel
    ELSE validate_provider(c.provider)

\* set_provider_kind leaving base_url as it was
set_provider_kind_KeepsBaseUrl(c, kind) ==
    [c EXCEPT !.provider = [kind        |-> kind,
                            model       |-> default_model(kind),
                            base_url    |-> c.provider.base_url,
                            api_key_env |-> default_api_key_env(kind)]]

\* set_provider_kind appending the default model name (push_str) instead
\* of assigning it
set_provider_kind_AppendsModel(c, kind) ==
    [c EXCEPT !.provider = [kind        |-> kind,
                            model       |-> c.provider.model \o default_model(kind),
                            base_url    |-> default_base_url(kind),
                            api_key_env |-> default_api_key_env(kind)]]

\* AppConfig::set_provider_kind
set_provider_kind(c, kind) ==
    [c EXCEPT !.provider = [kind        |-> kind,
                            model       |-> default_model(kind),
                            base_url    |-> default_base_url(kind),
                            api_key_env |-> default_api_key_env(kind)]]

-----------------------------------------------------------------------------
(* tui/wizard.rs: steps and catalogs *)

Steps == <<"Language", "Provider", "Model", "Summary">>

\* Step::prev / Step::next, Option<Step>
NoStep == "None"

\* prev sending Model back to Language
prev_SkipsProvider(s) ==
    CASE s = "Language" -> NoStep
      [] s = "Provider" -> "Language"
      [] s = "Model"    -> "Language"
      [] s = "Summary"  -> "Model"

prev(s) ==
    CASE s = "Language" -> NoStep
      [] s = "Provider" -> "Language"
      [] s = "Model"    -> "Provider"
      [] s = "Summary"  -> "Model"

\* next sending Provider straight to Summary
next_SkipsModel(s) ==
    CASE s = "Language" -> "Provider"
      [] s = "Provider" -> "Summary"
      [] s = "Model"    -> "Summary"
      [] s = "Summary"  -> NoStep

next(s) ==
    CASE s = "Language" -> "Provider"
      [] s = "Provider" -> "Model"
      [] s = "Model"    -> "Summary"
      [] s = "Summary"  -> NoStep

\* the codes of language_options(), in catalog order (display names are
\* only rendered)
LanguageCodes == <<"en", "ar", "no", "zh", "es", "fr", "de", "tr", "ru", "ja", "ko">>

\* the catalog with every entry flagged as supported
language_options_AllSupported ==
    [i \in 1..Len(LanguageCodes) |->
        [code |-> LanguageCodes[i], supported |-> TRUE]]

\* the catalog with Norwegian flagged as supported as well
language_options_SupportsNorwegian ==
    [i \in 1..Len(LanguageCodes) |->
        [code |-> LanguageCodes[i],
         supported |-> LanguageCodes[i] \in allowed_languages \cup {"no"}]]

language_options ==
    [i \in 1..Len(LanguageCodes) |->
        [code |-> LanguageCodes[i],
         supported |-> LanguageCodes[i] \in allowed_languages]]

provider_options == <<"Ollama", "OpenAI", "Claude", "OpenRouter">>

\* position counted from 1
position_or_0_OneBased(seq, x) ==
    IF \E i \in 1..Len(seq) : seq[i] = x
    THEN CHOOSE i \in 1..Len(seq) : seq[i] = x /\ \A j \in 1..(i-1) : seq[j] # x
    ELSE 0

\* iter().position(pred).unwrap_or(0), 0-based
position_or_0(seq, x) ==
    IF \E i \in 1..Len(seq) : seq[i] = x
    THEN (CHOOSE i \in 1..Len(seq) : seq[i] = x /\ \A j \in 1..(i-1) : seq[j] # x) - 1
    ELSE 0

\* usize::saturating_sub
saturating_sub(a, b) == IF a >= b THEN a - b ELSE 0

\* min that does not clamp
Min_NoClamp(a, b) == a

Min(a, b) == IF a <= b THEN a ELSE b

\* status lines (ui.status)
StatusHelp == "Navigate | Enter Next | Back | q Quit | C Colors | A Animation"

OnOff(b) == IF b THEN "ON" ELSE "OFF"

\* format!("Colors: {} | Animation: {}", ..)
StatusToggles(colors, animation) ==
    "Colors: " \o OnOff(colors) \o " | Animation: " \o OnOff(animation)

StatusBack == "Back to previous step"
StatusNotSupported == "This language is not supported yet"
StatusLanguageSelected == "Language selected"
StatusProviderSelected == "Provider selected"
StatusModelEmpty == "Model cannot be empty"
StatusModelSelected == "Model selected"

\* KeyCode
Key(name) == [code |-> name]
Char(c) == [code |-> "Char", ch |-> c]

IsChar(k, c) == k.code = "Char" /\ k.ch = c

\* the color toggle matching the lower-case letter only
IsColorKey_LowerCase(k) == IsChar(k, "c")

\* KeyCode::Char('c') | KeyCode::Char('C') in the global match of run()
IsColorKey(k) == IsChar(k, "c") \/ IsChar(k, "C")

\* KeyCode::Char('a') | KeyCode::Char('A') in the global match of run()
IsAnimationKey(k) == IsChar(k, "a") \/ IsChar(k, "A")

\* the quit test matching the upper-case letter only
IsQuitKey_UpperCase(k) == IsChar(k, "Q")

\* KeyCode::Char('q') in the global match of run()
IsQuitKey(k) == IsChar(k, "q")

\* the back-navigation test without KeyCode::Left
IsBackKey_NoLeft(k) == k.code \in {"Esc", "Backspace"} \/ IsChar(k, "b")

\* the back-navigation test without KeyCode::Backspace
IsBackKey_NoBackspace(k) == k.code \in {"Esc", "Left"} \/ IsChar(k, "b")

\* the key codes matched by the back-navigation test of run()
IsBackKey(k) == k.code \in {"Esc", "Backspace", "Left"} \/ IsChar(k, "b")

\* Result<AppConfig> of run()
Running == [tag |-> "Running"]
ReturnedOk(c) == [tag |-> "Ok", value |-> c]
Cancelled == [tag |-> "Err", kind |-> "Cancelled"]
SetupFailed == [tag |-> "Err", kind |-> "TerminalSetup"]
IoFailed(at) == [tag |-> "Err", kind |-> "TerminalIo", at |-> at]
ValidationFailed(e) == [tag |-> "Err", kind |-> "Validation", cause |-> e]

\* a binding that has not been initialised yet
Uninit == [tag |-> "Uninit"]

\* verdict before validate has been called
Pending == [tag |-> "Pending"]

-----------------------------------------------------------------------------
(* Inputs *)

Str_m == <<"m">>
Str_url == <<"u">>
Str_key == <<"K">>

Config(v, lang, mode, kind, model, base, key, feats, caps) ==
    [version  |-> v,
     language |-> lang,
     ui_mode  |-> mode,
     provider |-> [kind |-> kind, model |-> model, base_url |-> base,
                   api_key_env |-> key],
     features |-> feats,
     caps     |-> caps]

OtherFeatures ==
    [system_scan |-> FALSE, web_in_terminal |-> TRUE,
     command_suggestions |-> FALSE, safe_execute |-> TRUE]

OtherCaps ==
    [read_files |-> TRUE, write_files |-> TRUE, network |-> FALSE,
     run_commands |-> TRUE]

\* configurations a caller passes to run()
ExistingConfigs ==
    { new_default,
      Config(1, "ar", "Cli", "OpenAI", default_model("OpenAI"), None,
             default_api_key_env("OpenAI"), OtherFeatures, OtherCaps),
      Config(1, "en", "Tui", "OpenRouter", <<" ", "m">>, Some(Str_url),
             Some(Str_key), DefaultFeatures, OtherCaps),
      Config(1, "no", "Tui", "Claude", Str_m, None, Some(Str_key),
             DefaultFeatures, DefaultCaps),
      Config(2, "xx", "Cli", "Ollama", <<>>, None, None,
             OtherFeatures, DefaultCaps) }

\* keys the user can press
TypedChars == {"q", "b", "x", " ", "\t"}

Keys ==
    {Key("Up"), Key("Down"), Key("Enter"), Key("Esc"), Key("Backspace"),
     Key("Left"), Key("Tab")} \cup {Char(c) : c \in TypedChars}

-----------------------------------------------------------------------------
(* tui/wizard.rs: run() *)

NoExit == [tag |-> "None"]

\* no second run is being compared
NoReplay == [run |-> 0, keys |-> <<>>, trace |-> <<>>]

\* the locals of run() before they are initialised and after they are dropped
LocalsDead ==
    /\ draft = Uninit
    /\ step = NoStep
    /\ status = ""
    /\ lang_idx = 0
    /\ provider_idx = 0
    /\ model_input = <<>>
    /\ use_colors = FALSE
    /\ use_animation = FALSE
    /\ tick = 0

Init ==
    /\ pc = "start"
    /\ raw_mode = FALSE
    /\ alt_screen = FALSE
    /\ guard = FALSE
    /\ existing \in ExistingConfigs
    /\ LocalsDead
    /\ result = Running
    /\ exit_event = NoExit
    /\ script = <<>>
    /\ cfg = new_default
    /\ verdict = Pending
    /\ applied = <<>>
    /\ replay = NoReplay
    /\ saved = <<>>

\* TerminalGuard::enter as called by run(): `?` returns before the guard
\* value exists, so nothing is dropped on failure
GuardEnter ==
    /\ pc = "start"
    /\ \E raw_ok, alt_ok \in BOOLEAN :
         IF ~raw_ok
         THEN /\ result' = SetupFailed
              /\ pc' = "returned"
              /\ UNCHANGED <<raw_mode, alt_screen, guard>>
         ELSE IF ~alt_ok
         THEN /\ raw_mode' = TRUE
              /\ result' = SetupFailed
              /\ pc' = "returned"
              /\ UNCHANGED <<alt_screen, guard>>
         ELSE /\ raw_mode' = TRUE
              /\ alt_screen' = TRUE
              /\ guard' = TRUE
              /\ pc' = "new"
              /\ UNCHANGED result
    /\ UNCHANGED <<existing, localVars, exit_event, script, cfg, verdict, applied, replay, saved>>

\* a return of run() while _guard is in scope: the result is handed over and
\* the guard is dropped next
Return(r) ==
    /\ result' = r
    /\ pc' = "dropping"

\* Terminal::new(backend)?
TerminalNew ==
    /\ pc = "new"
    /\ \E ok \in BOOLEAN :
         IF ok THEN pc' = "clear" /\ UNCHANGED result
         ELSE Return(IoFailed("new"))
    /\ UNCHANGED <<raw_mode, alt_screen, guard, existing, localVars,
                   exit_event, script, cfg, verdict, applied, replay, saved>>

\* terminal.clear()?
TerminalClear ==
    /\ pc = "clear"
    /\ \E ok \in BOOLEAN :
         IF ok THEN pc' = "init" /\ UNCHANGED result
         ELSE Return(IoFailed("clear"))
    /\ UNCHANGED <<raw_mode, alt_screen, guard, existing, localVars,
                   exit_event, script, cfg, verdict, applied, replay, saved>>

\* the draft built from new_default() instead of a clone of `existing`
UiStateNew_DefaultDraft ==
    /\ pc = "init"
    /\ step' = "Language"
    /\ status' = StatusHelp
    /\ lang_idx' = position_or_0(LanguageCodes, existing.language)
    /\ provider_idx' = position_or_0(provider_options, existing.provider.kind)
    /\ model_input' = existing.provider.model
    /\ use_colors' = TRUE
    /\ use_animation' = TRUE
    /\ tick' = 0
    /\ draft' = [new_default EXCEPT !.language = existing.language,
                                    !.provider = existing.provider]
    /\ pc' = "loop"
    /\ UNCHANGED <<raw_mode, alt_screen, guard, existing, result, exit_event,
                   script, cfg, verdict, applied, replay, saved>>

\* let mut ui = UiState::new(existing); let mut draft = existing.clone();
UiStateNew ==
    /\ pc = "init"
    /\ step' = "Language"
    /\ status' = StatusHelp
    /\ lang_idx' = position_or_0(LanguageCodes, existing.language)
    /\ provider_idx' = position_or_0(provider_options, existing.provider.kind)
    /\ model_input' = existing.provider.model
    /\ use_colors' = TRUE
    /\ use_animation' = TRUE
    /\ tick' = 0
    /\ draft' = existing
    /\ pc' = "loop"
    /\ UNCHANGED <<raw_mode, alt_screen, guard, existing, result, exit_event,
                   script, cfg, verdict, applied, replay, saved>>

\* GuardDrop without the LeaveAlternateScreen command
GuardDrop_NoLeaveScreen ==
    /\ pc = "dropping"
    /\ guard
    /\ raw_mode' = FALSE
    /\ guard' = FALSE
    /\ pc' = "returned"
    /\ UNCHANGED <<alt_screen, existing, localVars, result, exit_event,
                   script, cfg, verdict, applied, replay, saved>>

\* Drop for TerminalGuard; both results are discarded
GuardDrop ==
    /\ pc = "dropping"
    /\ guard
    /\ raw_mode' = FALSE
    /\ alt_screen' = FALSE
    /\ guard' = FALSE
    /\ pc' = "returned"
    /\ UNCHANGED <<existing, localVars, result, exit_event, script, cfg,
                   verdict, applied, replay, saved>>

-----------------------------------------------------------------------------
(* tui/wizard.rs: step handlers.  Each sets step, status, draft, lang_idx,  *)
(* provider_idx and model_input; a handler never returns from run().        *)

\* handle_language_step committing the first catalog entry instead of the
\* selected one
handle_language_step_FirstEntry(code) ==
    /\ CASE code.code = "Up" ->
              /\ lang_idx' = saturating_sub(lang_idx, 1)
              /\ UNCHANGED <<draft, step, status>>
         [] code.code = "Down" ->
              /\ lang_idx' = Min(lang_idx + 1, saturating_sub(Len(language_options), 1))
              /\ UNCHANGED <<draft, step, status>>
         [] code.code = "Enter" ->
              IF lang_idx + 1 \in DOMAIN language_options
              THEN IF ~language_options[lang_idx + 1].supported
                   THEN /\ status' = StatusNotSupported
                        /\ UNCHANGED <<draft, step, lang_idx>>
                   ELSE /\ draft' = [draft EXCEPT !.language = language_options[1].code]
                        /\ step' = IF next(step) # NoStep THEN next(step) ELSE step
                        /\ status' = StatusLanguageSelected
                        /\ UNCHANGED lang_idx
              ELSE UNCHANGED <<draft, step, status, lang_idx>>
         [] OTHER -> UNCHANGED <<draft, step, status, lang_idx>>
    /\ UNCHANGED <<provider_idx, model_input>>

handle_language_step(code) ==
    /\ CASE code.code = "Up" ->
              /\ lang_idx' = saturating_sub(lang_idx, 1)
              /\ UNCHANGED <<draft, step, status>>
         [] code.code = "Down" ->
              /\ lang_idx' = Min(lang_idx + 1, saturating_sub(Len(language_options), 1))
              /\ UNCHANGED <<draft, step, status>>
         [] code.code = "Enter" ->
              IF lang_idx + 1 \in DOMAIN language_options
              THEN IF ~language_options[lang_idx + 1].supported
                   THEN /\ status' = StatusNotSupported
                        /\ UNCHANGED <<draft, step, lang_idx>>
                   ELSE /\ draft' = [draft EXCEPT !.language = language_options[lang_idx + 1].code]
                        /\ step' = IF next(step) # NoStep THEN next(step) ELSE step
                        /\ status' = StatusLanguageSelected
                        /\ UNCHANGED lang_idx
              ELSE UNCHANGED <<draft, step, status, lang_idx>>
         [] OTHER -> UNCHANGED <<draft, step, status, lang_idx>>
    /\ UNCHANGED <<provider_idx, model_input>>

\* handle_provider_step committing the first catalog entry instead of the
\* selected one
handle_provider_step_FirstEntry(code) ==
    /\ CASE code.code = "Up" ->
              /\ provider_idx' = saturating_sub(provider_idx, 1)
              /\ UNCHANGED <<draft, step, status>>
         [] code.code = "Down" ->
              /\ provider_idx' = Min(provider_idx + 1, saturating_sub(Len(provider_options), 1))
              /\ UNCHANGED <<draft, step, status>>
         [] code.code = "Enter" ->
              IF provider_idx + 1 \in DOMAIN provider_options
              THEN /\ draft' = [draft EXCEPT !.provider.kind = provider_options[1]]
                   /\ step' = IF next(step) # NoStep THEN next(step) ELSE step
                   /\ status' = StatusProviderSelected
                   /\ UNCHANGED provider_idx
              ELSE UNCHANGED <<draft, step, status, provider_idx>>
         [] OTHER -> UNCHANGED <<draft, step, status, provider_idx>>
    /\ UNCHANGED <<lang_idx, model_input>>

handle_provider_step(code) ==
    /\ CASE code.code = "Up" ->
              /\ provider_idx' = saturating_sub(provider_idx, 1)
              /\ UNCHANGED <<draft, step, status>>
         [] code.code = "Down" ->
              /\ provider_idx' = Min(provider_idx + 1, saturating_sub(Len(provider_options), 1))
              /\ UNCHANGED <<draft, step, status>>
         [] code.code = "Enter" ->
              IF provider_idx + 1 \in DOMAIN provider_options
              THEN /\ draft' = [draft EXCEPT !.provider.kind = provider_options[provider_idx + 1]]
                   /\ step' = IF next(step) # NoStep THEN next(step) ELSE step
                   /\ status' = StatusProviderSelected
                   /\ UNCHANGED provider_idx
              ELSE UNCHANGED <<draft, step, status, provider_idx>>
         [] OTHER -> UNCHANGED <<draft, step, status, provider_idx>>
    /\ UNCHANGED <<lang_idx, model_input>>

\* handle_model_step committing the trimmed buffer even when it is empty
handle_model_step_CommitsBlank(code) ==
    /\ CASE code.code = "Backspace" ->
              /\ model_input' = pop(model_input)
              /\ draft' = [draft EXCEPT !.provider.model = model_input']
              /\ UNCHANGED <<step, status>>
         [] code.code = "Enter" ->
              IF is_empty(trim(model_input))
              THEN /\ status' = StatusModelEmpty
                   /\ draft' = [draft EXCEPT !.provider.model = trim(model_input)]
                   /\ UNCHANGED <<step, model_input>>
              ELSE /\ draft' = [draft EXCEPT !.provider.model = trim(model_input)]
                   /\ step' = IF next(step) # NoStep THEN next(step) ELSE step
                   /\ status' = StatusModelSelected
                   /\ UNCHANGED model_input
         [] code.code = "Char" ->
              IF ~is_control(code.ch)
              THEN /\ model_input' = Append(model_input, code.ch)
                   /\ draft' = [draft EXCEPT !.provider.model = model_input']
                   /\ UNCHANGED <<step, status>>
              ELSE UNCHANGED <<draft, step, status, model_input>>
         [] OTHER -> UNCHANGED <<draft, step, status, model_input>>
    /\ UNCHANGED <<lang_idx, provider_idx>>

handle_model_step(code) ==
    /\ CASE code.code = "Backspace" ->
              /\ model_input' = pop(model_input)
              /\ draft' = [draft EXCEPT !.provider.model = model_input']
              /\ UNCHANGED <<step, status>>
         [] code.code = "Enter" ->
              IF is_empty(trim(model_input))
              THEN /\ status' = StatusModelEmpty
                   /\ UNCHANGED <<draft, step, model_input>>
              ELSE /\ draft' = [draft EXCEPT !.provider.model = trim(model_input)]
                   /\ step' = IF next(step) # NoStep THEN next(step) ELSE step
                   /\ status' = StatusModelSelected
                   /\ UNCHANGED model_input
         [] code.code = "Char" ->
              IF ~is_control(code.ch)
              THEN /\ model_input' = Append(model_input, code.ch)
                   /\ draft' = [draft EXCEPT !.provider.model = model_input']
                   /\ UNCHANGED <<step, status>>
              ELSE UNCHANGED <<draft, step, status, model_input>>
         [] OTHER -> UNCHANGED <<draft, step, status, model_input>>
    /\ UNCHANGED <<lang_idx, provider_idx>>

\* ui and draft go out of scope when run() returns; ui.tick goes with them
\* (see tick_after)
DropLocals ==
    /\ draft' = Uninit
    /\ step' = NoStep
    /\ status' = ""
    /\ lang_idx' = 0
    /\ provider_idx' = 0
    /\ model_input' = <<>>
    /\ use_colors' = FALSE
    /\ use_animation' = FALSE

\* a return of run() caused by the key press `key`
ReturnOnKey(r, key) ==
    /\ Return(r)
    /\ exit_event' = [tag |-> "Key", key |-> key, step |-> step]
    /\ DropLocals

\* the loop goes on to its next iteration
Continue == UNCHANGED <<pc, result, exit_event>>

\* the Summary arm returning the draft without calling validate
handle_summary_step_NoValidate(code) ==
    IF code.code = "Enter"
    THEN ReturnOnKey(ReturnedOk(draft), code)
    ELSE /\ Continue
         /\ UNCHANGED <<draft, step, status, lang_idx, provider_idx, model_input,
                        use_colors, use_animation>>

\* the Step::Summary arm of run()'s match; it is the only arm that can
\* return, so it also accounts for the locals
handle_summary_step(code) ==
    IF code.code = "Enter"
    THEN IF validate(draft).tag = "Ok"
         THEN ReturnOnKey(ReturnedOk(draft), code)
         ELSE ReturnOnKey(ValidationFailed(validate(draft)), code)
    ELSE /\ Continue
         /\ UNCHANGED <<draft, step, status, lang_idx, provider_idx, model_input,
                        use_colors, use_animation>>

\* run(): what one key press event does, from the global toggles down to
\* the step handlers
on_key_press(key) ==
    IF IsColorKey(key)
    THEN /\ use_colors' = ~use_colors
         /\ status' = StatusToggles(use_colors', use_animation)
         /\ Continue
         /\ UNCHANGED <<use_animation, draft, step, lang_idx, provider_idx,
                        model_input>>
    ELSE IF IsAnimationKey(key)
    THEN /\ use_animation' = ~use_animation
         /\ status' = StatusToggles(use_colors, use_animation')
         /\ Continue
         /\ UNCHANGED <<use_colors, draft, step, lang_idx, provider_idx,
                        model_input>>
    ELSE IF IsQuitKey(key)
    THEN ReturnOnKey(Cancelled, key)
    ELSE IF IsBackKey(key)
    THEN IF prev(step) # NoStep
         THEN /\ step' = prev(step)
              /\ status' = StatusBack
              /\ Continue
              /\ UNCHANGED <<use_colors, use_animation, draft, lang_idx,
                             provider_idx, model_input>>
         ELSE ReturnOnKey(Cancelled, key)
    ELSE CASE step = "Language" ->
                handle_language_step(key) /\ Continue
                /\ UNCHANGED <<use_colors, use_animation>>
           [] step = "Provider" ->
                handle_provider_step(key) /\ Continue
                /\ UNCHANGED <<use_colors, use_animation>>
           [] step = "Model" ->
                handle_model_step(key) /\ Continue
                /\ UNCHANGED <<use_colors, use_animation>>
           [] step = "Summary" ->
                handle_summary_step(key)

-----------------------------------------------------------------------------
(* tui/wizard.rs: one iteration of run()'s loop per action *)

\* the animation tick at the top of the loop; `elapsed` says whether
\* ui.last_tick.elapsed() >= tick_rate
animation_tick(elapsed) ==
    IF use_animation /\ elapsed THEN tick + 1 ELSE tick

\* ui.tick after an iteration that began with animation_tick(elapsed)
tick_after(elapsed) ==
    tick' = IF pc' = "loop" THEN animation_tick(elapsed) ELSE 0

TickChoices == IF tick < MaxTick THEN BOOLEAN ELSE {FALSE}

envVars == <<raw_mode, alt_screen, guard, existing, cfg, verdict, applied, replay, saved>>

\* terminal.draw, event::poll or event::read fails: `?` returns the error
IoFailure ==
    /\ pc = "loop"
    /\ \E elapsed \in TickChoices, at \in {"draw", "poll", "read"} :
         /\ Return(IoFailed(at))
         /\ DropLocals
         /\ tick_after(elapsed)
    /\ UNCHANGED <<exit_event, script>>
    /\ UNCHANGED envVars

\* event::poll returns false: no event within 60ms
PollTimeout ==
    /\ pc = "loop"
    /\ Continue
    /\ \E elapsed \in TickChoices : tick_after(elapsed)
    /\ UNCHANGED <<draft, step, status, lang_idx, provider_idx, model_input,
                   use_colors, use_animation, script>>
    /\ UNCHANGED envVars

\* the loop without the `key.kind != KeyEventKind::Press` test: a key
\* release is handled like a press of Enter
IgnoredEvent_HandlesRelease ==
    /\ pc = "loop"
    /\ \E elapsed \in TickChoices, ev \in {"Resize", "KeyRelease"} :
         IF ev = "KeyRelease"
         THEN on_key_press(Key("Enter")) /\ tick_after(elapsed)
         ELSE /\ Continue
              /\ tick_after(elapsed)
              /\ UNCHANGED <<draft, step, status, lang_idx, provider_idx,
                             model_input, use_colors, use_animation>>
    /\ UNCHANGED script
    /\ UNCHANGED envVars

\* an event that is not Event::Key, or a key event whose kind is not Press
IgnoredEvent ==
    /\ pc = "loop"
    /\ Continue
    /\ \E elapsed \in TickChoices, ev \in {"Resize", "KeyRelease"} :
         tick_after(elapsed)
    /\ UNCHANGED <<draft, step, status, lang_idx, provider_idx, model_input,
                   use_colors, use_animation, script>>
    /\ UNCHANGED envVars

\* a key press event, any key of Keys
KeyPress ==
    /\ pc = "loop"
    /\ \E elapsed \in TickChoices, key \in Keys :
         /\ on_key_press(key)
         /\ tick_after(elapsed)
         /\ Len(model_input') <= Len(existing.provider.model) + MaxTyped
    /\ UNCHANGED script
    /\ UNCHANGED envVars

Next ==
    \/ GuardEnter
    \/ TerminalNew
    \/ TerminalClear
    \/ UiStateNew
    \/ IoFailure
    \/ PollTimeout
    \/ IgnoredEvent
    \/ KeyPress
    \/ GuardDrop

Spec == Init /\ [][Next]_vars

-----------------------------------------------------------------------------
(* A scripted run: the user presses the keys of `script` in order *)

RepeatKey(k, n) == [i \in 1..n |-> k]

TypeText(s) == [i \in 1..Len(s) |-> Char(s[i])]

Text_gpt4o == <<"g", "p", "t", "-", "4", "o">>

\* the user clears the model field with Backspace, once per character shown;
\* the field shows at most the longest model name involved
ScenarioMaxClear == Len(default_model("OpenAI"))

\* select "ar" (second language), select OpenAI (second provider), clear the
\* model field, type "gpt-4o", Enter at Model, Enter at Summary
ScenarioScript(n) ==
    <<Key("Down"), Key("Enter"), Key("Down"), Key("Enter")>>
    \o RepeatKey(Key("Backspace"), n)
    \o TypeText(Text_gpt4o)
    \o <<Key("Enter"), Key("Enter")>>

\* language "en", provider Ollama, model "mistral"
ScenarioExisting == new_default

ScenarioExpected ==
    [ScenarioExisting EXCEPT
        !.language = "ar",
        !.provider = [kind        |-> "OpenAI",
                      model       |-> Text_gpt4o,
                      base_url    |-> None,
                      api_key_env |-> default_api_key_env("OpenAI")]]

InitScenario ==
    /\ pc = "start"
    /\ raw_mode = FALSE
    /\ alt_screen = FALSE
    /\ guard = FALSE
    /\ existing = ScenarioExisting
    /\ LocalsDead
    /\ result = Running
    /\ exit_event = NoExit
    /\ script \in {ScenarioScript(n) : n \in 1..ScenarioMaxClear}
    /\ cfg = new_default
    /\ verdict = Pending
    /\ applied = <<>>
    /\ replay = NoReplay
    /\ saved = <<>>

\* a key press event, the next key of the script
ScriptedKeyPress ==
    /\ pc = "loop"
    /\ script # <<>>
    /\ \E elapsed \in TickChoices :
         /\ on_key_press(Head(script))
         /\ tick_after(elapsed)
    /\ script' = Tail(script)
    /\ UNCHANGED envVars

NextScenario ==
    \/ GuardEnter
    \/ TerminalNew
    \/ TerminalClear
    \/ UiStateNew
    \/ IoFailure
    \/ PollTimeout
    \/ IgnoredEvent
    \/ ScriptedKeyPress
    \/ GuardDrop

SpecScenario == InitScenario /\ [][NextScenario]_vars

-----------------------------------------------------------------------------
(* run() with the whole keyboard, display toggles included *)

ToggleKeys == {Char("c"), Char("C"), Char("a"), Char("A")}

AllKeys == Keys \cup ToggleKeys

UiExistingConfigs ==
    { new_default,
      Config(1, "ar", "Cli", "OpenAI", <<>>, None,
             default_api_key_env("OpenAI"), OtherFeatures, OtherCaps) }

InitUi ==
    /\ pc = "start"
    /\ raw_mode = FALSE
    /\ alt_screen = FALSE
    /\ guard = FALSE
    /\ existing \in UiExistingConfigs
    /\ LocalsDead
    /\ result = Running
    /\ exit_event = NoExit
    /\ script = <<>>
    /\ cfg = new_default
    /\ verdict = Pending
    /\ applied = <<>>
    /\ replay = NoReplay
    /\ saved = <<>>

\* a key press event, any key of AllKeys
KeyPressAny ==
    /\ pc = "loop"
    /\ \E elapsed \in TickChoices, key \in AllKeys :
         /\ on_key_press(key)
         /\ tick_after(elapsed)
         /\ Len(model_input') <= Len(existing.provider.model) + MaxTyped
    /\ UNCHANGED script
    /\ UNCHANGED envVars

NextUi ==
    \/ GuardEnter
    \/ TerminalNew
    \/ TerminalClear
    \/ UiStateNew
    \/ IoFailure
    \/ PollTimeout
    \/ IgnoredEvent
    \/ KeyPressAny
    \/ GuardDrop

SpecUi == InitUi /\ [][NextUi]_vars

-----------------------------------------------------------------------------
(* config/mod.rs as a pure function: validate applied to a configuration *)

ConfigVersions == {0, CURRENT_VERSION, CURRENT_VERSION + 1}

ConfigLanguages == {"en", "ar", "no", "xx", ""}

ConfigModels == {<<>>, <<" ">>, <<"\t", "\n">>, Str_m, <<" ", "m", " ">>}

ConfigOptions == {None, Some(<<>>), Some(<<" ", "\t">>), Some(Str_url)}

\* ui_mode, features and caps, which neither validate nor
\* set_provider_kind reads
ConfigRest ==
    { <<"Tui", DefaultFeatures, DefaultCaps>>, <<"Cli", OtherFeatures, OtherCaps>> }

ConfigInputs ==
    { Config(v, l, r[1], k, m, b, e, r[2], r[3]) :
        v \in ConfigVersions, l \in ConfigLanguages, k \in ProviderKind,
        m \in ConfigModels, b \in ConfigOptions, e \in ConfigOptions,
        r \in ConfigRest }

InitConfig ==
    /\ pc = "config"
    /\ raw_mode = FALSE
    /\ alt_screen = FALSE
    /\ guard = FALSE
    /\ existing = new_default
    /\ LocalsDead
    /\ result = Running
    /\ exit_event = NoExit
    /\ script = <<>>
    /\ cfg \in ConfigInputs \cup {new_default}
    /\ verdict = Pending
    /\ applied = <<>>
    /\ replay = NoReplay
    /\ saved = <<>>

\* cfg.validate()
Validate ==
    /\ pc = "config"
    /\ verdict' = validate(cfg)
    /\ UNCHANGED <<pc, raw_mode, alt_screen, guard, existing, localVars,
                   result, exit_event, script, cfg, applied, replay, saved>>

\* cfg.set_provider_kind(kind)
SetProviderKind ==
    /\ pc = "config"
    /\ Len(applied) < MaxApply
    /\ \E kind \in ProviderKind :
         /\ cfg' = set_provider_kind(cfg, kind)
         /\ applied' = Append(applied, kind)
    /\ verdict' = Pending
    /\ UNCHANGED <<pc, raw_mode, alt_screen, guard, existing, localVars,
                   result, exit_event, script, replay, saved>>

NextConfig ==
    \/ Validate
    \/ SetProviderKind

SpecConfig == InitConfig /\ [][NextConfig]_vars

-----------------------------------------------------------------------------
(* Two calls of run() on the same existing configuration, fed the same key  *)
(* presses; ticks, poll timeouts and ignored events fall as they may        *)

TimingKeys == {Key("Enter"), Key("Down"), Key("Esc"), Char("x"), Char("a")}

\* the configurations the two runs start from
TimingExisting == ExistingConfigs \cup UiExistingConfigs

KeySequences == UNION { [1..n -> TimingKeys] : n \in 0..MaxKeys }

\* what a run shows apart from the animation: ui.step, draft, the two list
\* cursors, ui.model_input and the value run() returned
Shown(st, d, li, pi, mi, r) ==
    [step |-> st, draft |-> d, lang_idx |-> li, provider_idx |-> pi,
     model_input |-> mi, result |-> r]

\* the terminal has been set up: run() is about to build ui and draft
InitTiming ==
    /\ pc = "init"
    /\ raw_mode = TRUE
    /\ alt_screen = TRUE
    /\ guard = TRUE
    /\ existing \in TimingExisting
    /\ LocalsDead
    /\ result = Running
    /\ exit_event = NoExit
    /\ script \in KeySequences
    /\ cfg = new_default
    /\ verdict = Pending
    /\ applied = <<>>
    /\ replay = [run |-> 1, keys |-> script, trace |-> <<>>]
    /\ saved = <<>>

\* a key press event, the next key of the script; the first run records
\* what it shows after the key
RecordedKeyPress ==
    /\ pc = "loop"
    /\ script # <<>>
    /\ \E elapsed \in TickChoices :
         /\ on_key_press(Head(script))
         /\ tick_after(elapsed)
    /\ script' = Tail(script)
    /\ replay' = IF replay.run = 1
                 THEN [replay EXCEPT !.trace =
                          Append(@, Shown(step', draft', lang_idx', provider_idx',
                                          model_input', result'))]
                 ELSE replay
    /\ UNCHANGED <<raw_mode, alt_screen, guard, existing, cfg, verdict, applied,
                   saved>>

\* the first run is over (it returned, or it has been fed all its keys);
\* run() is called again with the same existing configuration and the same
\* keys, and is again about to build ui and draft
SecondRun ==
    /\ replay.run = 1
    /\ \/ pc = "returned"
       \/ pc = "loop" /\ script = <<>>
    /\ pc' = "init"
    /\ raw_mode' = TRUE
    /\ alt_screen' = TRUE
    /\ guard' = TRUE
    /\ DropLocals
    /\ tick' = 0
    /\ result' = Running
    /\ exit_event' = NoExit
    /\ script' = replay.keys
    /\ replay' = [replay EXCEPT !.run = 2]
    /\ UNCHANGED <<existing, cfg, verdict, applied, saved>>

NextTiming ==
    \/ UiStateNew
    \/ PollTimeout
    \/ IgnoredEvent
    \/ RecordedKeyPress
    \/ GuardDrop
    \/ SecondRun

SpecTiming == InitTiming /\ [][NextTiming]_vars

-----------------------------------------------------------------------------
(* main.rs: main() around the wizard *)

\* what load_or_create_config can return: a stored configuration that
\* passed validate (load_config), or new_default
MainConfigs == { c \in ExistingConfigs : validate(c).tag = "Ok" }

InitMain ==
    /\ pc = "main"
    /\ raw_mode = FALSE
    /\ alt_screen = FALSE
    /\ guard = FALSE
    /\ existing = Uninit
    /\ LocalsDead
    /\ result = Running
    /\ exit_event = NoExit
    /\ script = <<>>
    /\ cfg = Uninit
    /\ verdict = Pending
    /\ applied = <<>>
    /\ replay = NoReplay
    /\ saved = <<>>

\* main up to the call of the wizard: load_or_create_config()?, the boot
\* output, has_flag("--setup"), tui::wizard::run(&cfg)
MainLoad ==
    /\ pc = "main"
    /\ \/ /\ pc' = "exit"
          /\ UNCHANGED <<cfg, existing>>
       \/ \E c \in MainConfigs, setup \in BOOLEAN :
            /\ cfg' = c
            /\ IF setup
               THEN pc' = "start" /\ existing' = c
               ELSE pc' = "exit" /\ UNCHANGED existing
    /\ UNCHANGED <<raw_mode, alt_screen, guard, localVars, result, exit_event,
                   script, verdict, applied, replay, saved>>

\* the wizard's error handed to save_config's caller as if it were a result:
\* on Err the configuration main holds is saved
MainValidate_SavesOnError ==
    /\ pc = "returned"
    /\ IF result.tag = "Err"
       THEN /\ pc' = "saving"
            /\ result' = ReturnedOk(cfg)
            /\ UNCHANGED verdict
       ELSE /\ verdict' = validate(result.value)
            /\ pc' = IF verdict'.tag = "Ok" THEN "saving" ELSE "exit"
            /\ UNCHANGED result
    /\ UNCHANGED <<raw_mode, alt_screen, guard, existing, localVars,
                   exit_event, script, cfg, applied, replay, saved>>

\* run(&cfg).context(..)? and updated.validate().context(..)?
MainValidate ==
    /\ pc = "returned"
    /\ IF result.tag = "Err"
       THEN /\ pc' = "exit"
            /\ UNCHANGED verdict
       ELSE /\ verdict' = validate(result.value)
            /\ pc' = IF verdict'.tag = "Ok" THEN "saving" ELSE "exit"
    /\ UNCHANGED <<raw_mode, alt_screen, guard, existing, localVars, result,
                   exit_event, script, cfg, applied, replay, saved>>

\* save_config(&updated).context(..)?; cfg = updated;
MainSave ==
    /\ pc = "saving"
    /\ saved' = Append(saved, result.value)
    /\ \E ok \in BOOLEAN :
         cfg' = IF ok THEN result.value ELSE cfg
    /\ pc' = "exit"
    /\ UNCHANGED <<raw_mode, alt_screen, guard, existing, localVars, result,
                   exit_event, script, verdict, applied, replay>>

NextMain ==
    \/ MainLoad
    \/ GuardEnter
    \/ TerminalNew
    \/ TerminalClear
    \/ UiStateNew
    \/ IoFailure
    \/ PollTimeout
    \/ IgnoredEvent
    \/ KeyPress
    \/ GuardDrop
    \/ MainValidate
    \/ MainSave

SpecMain == InitMain /\ [][NextMain]_vars

-----------------------------------------------------------------------------
(* Properties *)

TypeOK ==
    /\ pc \in {"start", "new", "clear", "init", "loop", "dropping", "returned",
              "config", "main", "saving", "exit"}
    /\ raw_mode \in BOOLEAN /\ alt_screen \in BOOLEAN /\ guard \in BOOLEAN
    /\ step \in {"Language", "Provider", "Model", "Summary", NoStep}
    /\ lang_idx \in 0..(Len(LanguageCodes) - 1)
    /\ provider_idx \in 0..(Len(provider_options) - 1)
    /\ tick \in 0..MaxTick
    /\ pc # "loop" => LocalsDead

\* run() returned because terminal setup or terminal I/O failed
EndedByTerminalError ==
    result.tag = "Err" /\ result.kind \in {"TerminalSetup", "TerminalIo"}

\* a string with nothing but whitespace in it
Blank(s) == \A i \in 1..Len(s) : s[i] \in WhitespaceChars

\* an optional string that is there and not blank
Present(o) == o.tag = "Some" /\ ~Blank(o.val)

BackKeys == {Key("Esc"), Key("Backspace"), Key("Left"), Char("b")}

C2_SetupFailureRestoresTerminal ==
    (pc = "returned" /\ result = SetupFailed) => (~raw_mode /\ ~alt_screen)

\* the acceptance condition of the configuration, rule by rule
Accepts(c) ==
    /\ c.version = CURRENT_VERSION
    /\ c.language \in allowed_languages
    /\ ~Blank(c.provider.model)
    /\ c.provider.kind = "OpenRouter"
          => (Present(c.provider.base_url) /\ Present(c.provider.api_key_env))
    /\ c.provider.kind = "Ollama" => Present(c.provider.base_url)
    /\ c.provider.kind \in {"OpenAI", "Claude"} => Present(c.provider.api_key_env)

\* C3: validate returns Ok if and only if version, language, model and the
\* provider-kind requirement are all satisfied.
C3_ValidateAcceptsIff ==
    verdict # Pending => ((verdict = Ok) <=> Accepts(cfg))

\* an Ollama configuration without api_key_env was accepted
C3_Witness ==
    /\ verdict = Ok
    /\ cfg.provider.kind = "Ollama"
    /\ cfg.provider.api_key_env = None
    /\ cfg.provider.model = <<" ", "m", " ">>

\* C4: validate reports the error of the first failing check in the order
\* version, language, model, provider fields; for OpenRouter a missing
\* base_url is reported before a missing api_key_env.
C4_FirstFailingCheckWins ==
    verdict # Pending =>
      /\ cfg.version # CURRENT_VERSION => verdict = UnsupportedVersion(cfg.version)
      /\ (cfg.version = CURRENT_VERSION /\ cfg.language \notin allowed_languages)
            => verdict = InvalidLanguage(cfg.language)
      /\ (cfg.version = CURRENT_VERSION /\ cfg.language \in allowed_languages
            /\ Blank(cfg.provider.model))
            => verdict = EmptyModel
      /\ (cfg.version = CURRENT_VERSION /\ cfg.language \in allowed_languages
            /\ ~Blank(cfg.provider.model)
            /\ cfg.provider.kind \in {"OpenRouter", "Ollama"}
            /\ ~Present(cfg.provider.base_url))
            => verdict = MissingBaseUrl
      /\ (cfg.version = CURRENT_VERSION /\ cfg.language \in allowed_languages
            /\ ~Blank(cfg.provider.model)
            /\ (cfg.provider.kind = "OpenRouter" => Present(cfg.provider.base_url))
            /\ cfg.provider.kind # "Ollama"
            /\ ~Present(cfg.provider.api_key_env))
            => verdict = MissingApiKeyEnv

\* OpenRouter with base_url and api_key_env both missing: MissingBaseUrl
C4_Witness ==
    /\ verdict = MissingBaseUrl
    /\ cfg.provider.kind = "OpenRouter"
    /\ cfg.provider.base_url = None
    /\ cfg.provider.api_key_env = None

\* the provider block made of the defaults of `kind`
ProviderDefaults(kind) ==
    [kind        |-> kind,
     model       |-> default_model(kind),
     base_url    |-> default_base_url(kind),
     api_key_env |-> default_api_key_env(kind)]

\* C5: Enter at the Provider step leaves the draft's provider block equal to
\* the defaults of the selected kind, and the step at Model.
C5_ProviderEnterAppliesDefaults ==
    [][(pc = "loop" /\ step = "Provider" /\ on_key_press(Key("Enter")))
          => (/\ step' = "Model"
              /\ draft'.provider = ProviderDefaults(provider_options[provider_idx + 1]))]_vars

\* C6: from an existing configuration that passes validate, every draft that
\* reaches Summary passes validate and run never ends with a validation
\* failure.
C6_SummaryDraftAlwaysValid ==
    validate(existing) = Ok =>
      /\ (pc = "loop" /\ step = "Summary") => validate(draft) = Ok
      /\ ~(result.tag = "Err" /\ result.kind = "Validation")

\* C7: the scripted run (language "ar", provider OpenAI, model field cleared,
\* "gpt-4o" typed, Enter, Enter) ends with Ok and the expected configuration.
C7_ScenarioReturnsExpected ==
    (pc = "returned" /\ ~EndedByTerminalError)
       => (result = ReturnedOk(ScenarioExpected) /\ validate(result.value) = Ok)

\* C8: run returns Ok only on Enter at Summary with a draft that passes
\* validate, and returns that draft; Enter at Summary with a draft that
\* fails validate ends run with the validation error; every Ok value passes
\* validate.
C8_OkOnlyFromValidatedSummary ==
    /\ [](result.tag = "Ok" => validate(result.value) = Ok)
    /\ [][/\ (result'.tag = "Ok" /\ result.tag # "Ok")
               => (/\ pc = "loop" /\ step = "Summary"
                   /\ on_key_press(Key("Enter"))
                   /\ validate(draft) = Ok
                   /\ result'.value = draft)
          /\ (pc = "loop" /\ step = "Summary" /\ on_key_press(Key("Enter"))
                /\ validate(draft) # Ok)
               => (result' = ValidationFailed(validate(draft)) /\ pc' # "loop")]_vars

\* run returned Ok on Enter at Summary with an edited configuration
C8_Witness ==
    /\ pc = "returned"
    /\ result.tag = "Ok"
    /\ result.value # existing
    /\ exit_event = [tag |-> "Key", key |-> Key("Enter"), step |-> "Summary"]

\* C9: q at any step ends run with the cancellation outcome and discards the
\* draft; the caller's configuration is never changed.
C9_QuitCancelsAndKeepsExisting ==
    /\ [][existing' = existing]_vars
    /\ [][(pc = "loop" /\ on_key_press(Char("q")))
             => (result' = Cancelled /\ pc' = "dropping" /\ draft' = Uninit)]_vars

\* q was pressed at the Model step and run returned the cancellation
C9_Witness ==
    /\ pc = "returned"
    /\ result = Cancelled
    /\ exit_event = [tag |-> "Key", key |-> Char("q"), step |-> "Model"]

\* C10: a back-navigation key at the Language step ends run with the
\* cancellation outcome.
C10_BackAtLanguageCancels ==
    [][(pc = "loop" /\ step = "Language" /\ \E k \in BackKeys : on_key_press(k))
          => (result' = Cancelled /\ pc' = "dropping")]_vars

\* the Left arrow was pressed at Language and run returned the cancellation
C10_Witness ==
    /\ pc = "returned"
    /\ result = Cancelled
    /\ exit_event = [tag |-> "Key", key |-> Key("Left"), step |-> "Language"]

\* C11: Backspace at the Model step removes the last character of the model
\* input buffer (nothing when it is empty), keeps the step at Model and
\* leaves draft.provider.model equal to the buffer.
C11_BackspaceEditsModelBuffer ==
    [][(pc = "loop" /\ step = "Model" /\ on_key_press(Key("Backspace")))
          => (/\ step' = "Model"
              /\ model_input' = pop(model_input)
              /\ draft'.provider.model = model_input')]_vars

\* C12: at the Model step a key press of a non-control character appends it
\* to the model input buffer and leaves draft.provider.model equal to the
\* buffer; a control character changes neither the buffer nor the draft.
C12_CharKeysAppendToModelBuffer ==
    [][\A c \in TypedChars :
         (pc = "loop" /\ step = "Model" /\ on_key_press(Char(c)))
            => IF is_control(c)
               THEN model_input' = model_input /\ draft' = draft
               ELSE /\ model_input' = Append(model_input, c)
                    /\ draft'.provider.model = model_input']_vars

\* what a display toggle must leave alone
ToggleFrame ==
    /\ pc' = "loop"
    /\ step' = step
    /\ draft' = draft
    /\ lang_idx' = lang_idx
    /\ provider_idx' = provider_idx
    /\ model_input' = model_input

\* C13: at every step, Model included, c or C flips the color flag and not
\* the animation flag, a or A flips the animation flag and not the color
\* flag, and q cancels; a toggle key changes neither the step, the draft, a
\* list cursor nor the model input buffer.
C13_GlobalKeysBeforeStepHandling ==
    [][/\ \A k \in {Char("c"), Char("C")} :
            (pc = "loop" /\ on_key_press(k))
               => (/\ use_colors' = ~use_colors
                   /\ use_animation' = use_animation
                   /\ ToggleFrame)
       /\ \A k \in {Char("a"), Char("A")} :
            (pc = "loop" /\ on_key_press(k))
               => (/\ use_animation' = ~use_animation
                   /\ use_colors' = use_colors
                   /\ ToggleFrame)
       /\ (pc = "loop" /\ on_key_press(Char("q")))
               => (result' = Cancelled /\ pc' = "dropping")]_vars

\* colors were switched off and on again and animation switched off while
\* the wizard sat at the Model step with an untouched buffer and draft
C13_Witness ==
    /\ pc = "loop"
    /\ step = "Model"
    /\ use_colors /\ ~use_animation
    /\ status = StatusToggles(TRUE, FALSE)
    /\ model_input = existing.provider.model
    /\ draft.provider.model = existing.provider.model

\* C14 as stated: Enter at the Model step with an empty or all-whitespace
\* buffer keeps the step at Model, sets the 'cannot be empty' status and
\* leaves draft.provider.model at a previous valid, non-blank value.
C14_BlankEnterKeepsValidModel ==
    [][(pc = "loop" /\ step = "Model" /\ Blank(model_input)
          /\ on_key_press(Key("Enter")))
          => (/\ step' = "Model"
              /\ status' = StatusModelEmpty
              /\ draft'.provider.model = draft.provider.model
              /\ ~Blank(draft'.provider.model))]_vars

\* C14 amended: Enter at the Model step with an empty or all-whitespace
\* buffer keeps the step at Model, sets the 'cannot be empty' status and
\* leaves draft.provider.model as it was before the key press.
C14_BlankEnterLeavesModel ==
    [][(pc = "loop" /\ step = "Model" /\ Blank(model_input)
          /\ on_key_press(Key("Enter")))
          => (/\ pc' = "loop"
              /\ step' = "Model"
              /\ status' = StatusModelEmpty
              /\ draft'.provider.model = draft.provider.model)]_vars

\* Enter was rejected on a buffer holding one space, mirrored in the draft
C14_Witness ==
    /\ pc = "loop"
    /\ step = "Model"
    /\ status = StatusModelEmpty
    /\ model_input = <<" ">>
    /\ draft.provider.model = <<" ">>

\* t is s without its leading and trailing whitespace
IsTrimOf(t, s) ==
    \E i, j \in 0..Len(s) :
       /\ i + j <= Len(s)
       /\ t = SubSeq(s, i + 1, Len(s) - j)
       /\ \A n \in 1..i : s[n] \in WhitespaceChars
       /\ \A n \in (Len(s) - j + 1)..Len(s) : s[n] \in WhitespaceChars
       /\ t # <<>> => (t[1] \notin WhitespaceChars /\ t[Len(t)] \notin WhitespaceChars)

\* C15: Enter at the Model step with a buffer that is not blank sets
\* draft.provider.model to the buffer without its leading and trailing
\* whitespace and advances the step to Summary.
C15_EnterCommitsTrimmedModel ==
    [][(pc = "loop" /\ step = "Model" /\ ~Blank(model_input)
          /\ on_key_press(Key("Enter")))
          => (/\ pc' = "loop"
              /\ step' = "Summary"
              /\ draft'.provider.model # <<>>
              /\ IsTrimOf(draft'.provider.model, model_input))]_vars

\* " m " was committed as "m"
C15_Witness ==
    /\ pc = "loop"
    /\ step = "Summary"
    /\ status = StatusModelSelected
    /\ model_input = <<" ", "m", " ">>
    /\ draft.provider.model = <<"m">>

\* C16: Enter at the Language step on a supported catalog entry writes its
\* code into draft.language and advances to Provider; Up and Down never
\* change draft.language.
C16_EnterCommitsSupportedLanguage ==
    [][/\ (pc = "loop" /\ step = "Language"
             /\ LanguageCodes[lang_idx + 1] \in allowed_languages
             /\ on_key_press(Key("Enter")))
            => (/\ pc' = "loop"
                /\ step' = "Provider"
                /\ draft'.language = LanguageCodes[lang_idx + 1])
       /\ \A k \in {Key("Up"), Key("Down")} :
            (pc = "loop" /\ on_key_press(k)) => draft'.language = draft.language]_vars

\* "ar" was committed over another language
C16_Witness ==
    /\ pc = "loop"
    /\ step = "Provider"
    /\ status = StatusLanguageSelected
    /\ lang_idx = 1
    /\ draft.language = "ar"
    /\ existing.language # "ar"

\* C17: Enter at the Language step on an entry that is not supported leaves
\* the step, the draft, both cursors and the model buffer unchanged and sets
\* the 'not supported yet' status.
C17_EnterOnUnsupportedLanguage ==
    [][(pc = "loop" /\ step = "Language"
          /\ LanguageCodes[lang_idx + 1] \notin allowed_languages
          /\ on_key_press(Key("Enter")))
          => (/\ pc' = "loop"
              /\ step' = "Language"
              /\ draft' = draft
              /\ lang_idx' = lang_idx
              /\ provider_idx' = provider_idx
              /\ model_input' = model_input
              /\ use_colors' = use_colors
              /\ use_animation' = use_animation
              /\ status' = StatusNotSupported)]_vars

\* Enter was rejected on "no", the third catalog entry
C17_Witness ==
    /\ pc = "loop"
    /\ step = "Language"
    /\ status = StatusNotSupported
    /\ lang_idx = 2
    /\ draft = existing

\* C18: the language cursor stays within 0..10 and the provider cursor
\* within 0..3; Up at 0 and Down at the last index leave the cursor where it
\* is, otherwise Up and Down move the cursor of the current list by one.
C18_CursorsClamped ==
    /\ [](pc = "loop" => (lang_idx \in 0..10 /\ provider_idx \in 0..3))
    /\ [][/\ (pc = "loop" /\ step = "Language" /\ on_key_press(Key("Up")))
               => lang_idx' = (IF lang_idx = 0 THEN 0 ELSE lang_idx - 1)
          /\ (pc = "loop" /\ step = "Language" /\ on_key_press(Key("Down")))
               => lang_idx' = (IF lang_idx = 10 THEN 10 ELSE lang_idx + 1)
          /\ (pc = "loop" /\ step = "Provider" /\ on_key_press(Key("Up")))
               => provider_idx' = (IF provider_idx = 0 THEN 0 ELSE provider_idx - 1)
          /\ (pc = "loop" /\ step = "Provider" /\ on_key_press(Key("Down")))
               => provider_idx' = (IF provider_idx = 3 THEN 3 ELSE provider_idx + 1)]_vars

\* both cursors sit on the last entry of their list: the provider cursor
\* was moved there, then the wizard went back to the Language step
C18_Witness ==
    /\ pc = "loop"
    /\ step = "Language"
    /\ lang_idx = 10
    /\ provider_idx = 3


-----------------------------------------------------------------------------
(* set_provider_kind (config/mod.rs) *)

\* C19: set_provider_kind(kind) leaves the provider block equal to the
\* defaults of kind, whatever the block was before, and leaves version,
\* language, ui_mode, features and caps as they were.
C19_SetProviderKindFrame ==
    [][\A k \in ProviderKind :
          (pc = "config" /\ applied' = Append(applied, k))
             => (/\ cfg'.provider = ProviderDefaults(k)
                 /\ cfg'.version = cfg.version
                 /\ cfg'.language = cfg.language
                 /\ cfg'.ui_mode = cfg.ui_mode
                 /\ cfg'.features = cfg.features
                 /\ cfg'.caps = cfg.caps)]_vars

\* a configuration of another version, language, mode and feature flags
\* than the defaults, after one set_provider_kind("OpenAI")
C19_Witness ==
    /\ pc = "config"
    /\ applied = <<"OpenAI">>
    /\ cfg.provider = ProviderDefaults("OpenAI")
    /\ cfg.version = 2
    /\ cfg.language = "xx"
    /\ cfg.ui_mode = "Cli"
    /\ cfg.features = OtherFeatures

\* C20: applying set_provider_kind with the kind it was last applied with
\* leaves the configuration as the first application made it.
C20_SetProviderKindIdempotent ==
    [][\A k \in ProviderKind :
          (/\ pc = "config"
           /\ applied # <<>>
           /\ applied[Len(applied)] = k
           /\ applied' = Append(applied, k))
             => cfg' = cfg]_vars

\* set_provider_kind("Claude") applied twice in a row
C20_Witness ==
    /\ pc = "config"
    /\ applied = <<"Claude", "Claude">>
    /\ cfg.provider = ProviderDefaults("Claude")


-----------------------------------------------------------------------------
(* Step order (wizard.rs Step::prev / Step::next) *)

\* the position of a step in the order Language, Provider, Model, Summary
StepPos(s) == CHOOSE i \in 1..Len(Steps) : Steps[i] = s

\* C21: next and prev are inverse partial functions over the step order:
\* prev(next(s)) = s for every step but Summary, next(prev(s)) = s for every
\* step but Language, prev(Language) and next(Summary) are None; this holds
\* for every step and so for the step the wizard is at.
C21_StepNextPrevInverse ==
    /\ \A i \in 1..Len(Steps) :
         /\ i < Len(Steps) => prev(next(Steps[i])) = Steps[i]
         /\ i > 1 => next(prev(Steps[i])) = Steps[i]
    /\ prev(Steps[1]) = NoStep
    /\ next(Steps[Len(Steps)]) = NoStep
    /\ pc = "loop" =>
         /\ step # "Summary" => prev(next(step)) = step
         /\ step # "Language" => next(prev(step)) = step

\* the wizard has moved forward to Model and back to Provider
C21_Witness ==
    /\ pc = "loop"
    /\ step = "Provider"
    /\ status = StatusBack
    /\ next(prev(step)) = step
    /\ prev(next(step)) = step

\* Enter is accepted at the current step
EnterAccepted ==
    \/ step = "Language" /\ LanguageCodes[lang_idx + 1] \in allowed_languages
    \/ step = "Provider"
    \/ step = "Model" /\ ~Blank(model_input)

\* C22: one key event moves the step by at most one position; a
\* back-navigation key at Provider, Model or Summary moves to the step one
\* position before, an accepted Enter at Language, Provider or Model to the
\* step one position after, and no other key event changes the step.
C22_StepsStrictlyLinear ==
    [][/\ (pc = "loop" /\ pc' = "loop")
            => (StepPos(step') - StepPos(step)) \in {-1, 0, 1}
       /\ \A k \in BackKeys :
            (pc = "loop" /\ step # "Language" /\ on_key_press(k))
               => (pc' = "loop" /\ StepPos(step') = StepPos(step) - 1)
       /\ (pc = "loop" /\ EnterAccepted /\ on_key_press(Key("Enter")))
            => (pc' = "loop" /\ StepPos(step') = StepPos(step) + 1)
       /\ (pc = "loop" /\ step # "Summary" /\ ~EnterAccepted
              /\ on_key_press(Key("Enter")))
            => (pc' = "loop" /\ step' = step)
       /\ \A k \in Keys \ (BackKeys \cup {Key("Enter")}) :
            (pc = "loop" /\ on_key_press(k) /\ pc' = "loop") => step' = step]_vars

\* an accepted Enter at Provider has just moved the wizard to Model
C22_Witness ==
    /\ pc = "loop"
    /\ step = "Model"
    /\ status = StatusProviderSelected


-----------------------------------------------------------------------------
(* The animation is cosmetic *)

\* key presses fed to the current run so far
KeysFed == Len(replay.keys) - Len(script)

\* C23: a second run on the same existing configuration and the same key
\* presses shows, after each key press, the step, draft, cursors, model
\* buffer and outcome the first run showed after that key press, whatever
\* the ticks, poll timeouts and ignored events in either run; and an
\* iteration of the loop without a key press leaves step, draft, cursors and
\* model buffer unchanged.
C23_AnimationIsCosmetic ==
    /\ []((replay.run = 2 /\ pc \in {"loop", "dropping", "returned"}
               /\ KeysFed >= 1)
             => (/\ KeysFed <= Len(replay.trace)
                 /\ Shown(step, draft, lang_idx, provider_idx, model_input, result)
                       = replay.trace[KeysFed]))
    /\ [][(pc = "loop" /\ script' = script /\ replay' = replay)
             => UNCHANGED <<step, draft, lang_idx, provider_idx, model_input,
                            pc, result>>]_vars

\* the second run has typed into the model field at another tick value
\* than the first run could have had at its first key press
C23_Witness ==
    /\ replay.run = 2
    /\ pc = "loop"
    /\ step = "Model"
    /\ KeysFed = 3
    /\ tick = MaxTick
    /\ model_input # existing.provider.model
    /\ replay.trace[3].model_input = model_input


-----------------------------------------------------------------------------
(* main() and the wizard's outcome *)

\* C24: when the wizard ends with cancellation or any other error, main
\* makes no save_config call and keeps the configuration it loaded;
\* save_config is called at most once, with the wizard's Ok value, and only
\* after that value passed validate.
C24_NoSaveWithoutValidatedResult ==
    /\ result.tag = "Err" => saved = <<>>
    /\ (pc = "exit" /\ result.tag = "Err") => cfg = existing
    /\ Len(saved) <= 1
    /\ \A i \in DOMAIN saved :
         /\ result = ReturnedOk(saved[i])
         /\ verdict = Ok
         /\ validate(saved[i]) = Ok

\* main has ended after the user cancelled the wizard with a key
C24_Witness ==
    /\ pc = "exit"
    /\ result = Cancelled
    /\ exit_event.tag = "Key"
    /\ saved = <<>>
    /\ cfg = existing


-----------------------------------------------------------------------------
(* Session state *)

\* C25: UiState::new and the clone give: step Language, draft equal to the
\* existing configuration, the language cursor on existing.language in the
\* catalog (0 when it is not there), the provider cursor on
\* existing.provider.kind, the model buffer equal to existing.provider.model,
\* colors and animation on, tick 0.
C25_InitialSessionState ==
    [][(pc = "init" /\ pc' = "loop")
          => (/\ step' = "Language"
              /\ draft' = existing
              /\ lang_idx' \in 0..(Len(LanguageCodes) - 1)
              /\ IF \E i \in 1..Len(LanguageCodes) : LanguageCodes[i] = existing.language
                 THEN LanguageCodes[lang_idx' + 1] = existing.language
                 ELSE lang_idx' = 0
              /\ provider_idx' \in 0..(Len(provider_options) - 1)
              /\ provider_options[provider_idx' + 1] = existing.provider.kind
              /\ model_input' = existing.provider.model
              /\ use_colors' /\ use_animation'
              /\ tick' = 0)]_vars

\* the session has just started from a configuration whose language is in
\* the catalog at position 2 and whose provider is at position 2
C25_Witness ==
    /\ pc = "loop"
    /\ status = StatusHelp
    /\ existing.language = "no"
    /\ lang_idx = 2
    /\ existing.provider.kind = "Claude"
    /\ provider_idx = 2
    /\ model_input = Str_m
    /\ tick = 0

\* C26: once the wizard is past the Language step, draft.language is an
\* allowed language, whatever language the existing configuration had.
C26_DraftLanguageAllowedPastLanguage ==
    (pc = "loop" /\ step \in {"Provider", "Model", "Summary"})
       => draft.language \in allowed_languages

\* the wizard reached Summary from a configuration with an unknown language
C26_Witness ==
    /\ pc = "loop"
    /\ step = "Summary"
    /\ existing.language = "xx"
    /\ draft.language = "ar"

\* C27: at Summary, draft.provider.model is not blank and is the model
\* buffer without its leading and trailing whitespace.
C27_SummaryModelIsTrimmedBuffer ==
    (pc = "loop" /\ step = "Summary")
       => (/\ ~Blank(draft.provider.model)
           /\ IsTrimOf(draft.provider.model, model_input))

\* at Summary with a buffer that has whitespace around the name
C27_Witness ==
    /\ pc = "loop"
    /\ step = "Summary"
    /\ model_input = <<" ", "m", " ">>
    /\ draft.provider.model = <<"m">>

\* C28: during a run the draft's version, ui_mode, features and caps are
\* those of the existing configuration, and a configuration returned as Ok
\* differs from the existing one at most in language and provider.
C28_DraftFrame ==
    /\ pc = "loop" =>
         /\ draft.version = existing.version
         /\ draft.ui_mode = existing.ui_mode
         /\ draft.features = existing.features
         /\ draft.caps = existing.caps
    /\ result.tag = "Ok" =>
         result.value = [existing EXCEPT !.language = result.value.language,
                                         !.provider = result.value.provider]

\* run returned an edited configuration of a caller whose mode, features and
\* caps are not the defaults
C28_Witness ==
    /\ pc = "returned"
    /\ result.tag = "Ok"
    /\ result.value # existing
    /\ existing.ui_mode = "Cli"
    /\ existing.features = OtherFeatures
    /\ existing.caps = OtherCaps


-----------------------------------------------------------------------------
(* Accepting everything *)

\* a string that neither starts nor ends with whitespace
NoOuterWhitespace(s) ==
    s # <<>> => (s[1] \notin WhitespaceChars /\ s[Len(s)] \notin WhitespaceChars)

\* C29: from an existing configuration that passes validate and whose model
\* has no leading or trailing whitespace, a run fed four Enter key presses
\* and nothing else has, after the fourth, returned Ok with a configuration
\* equal to the existing one.
C29_FourEntersReturnExisting ==
    (/\ replay.keys = RepeatKey(Key("Enter"), 4)
     /\ script = <<>>
     /\ validate(existing) = Ok
     /\ NoOuterWhitespace(existing.provider.model))
       => (/\ pc \in {"dropping", "returned"}
           /\ result = ReturnedOk(existing)
           /\ exit_event = [tag |-> "Key", key |-> Key("Enter"), step |-> "Summary"])

\* four Enter presses on a valid OpenAI configuration gave it back
C29_Witness ==
    /\ replay.keys = RepeatKey(Key("Enter"), 4)
    /\ script = <<>>
    /\ pc = "returned"
    /\ existing.provider.kind = "OpenAI"
    /\ existing.language = "ar"
    /\ existing.provider.model = default_model("OpenAI")
    /\ result = ReturnedOk(existing)


-----------------------------------------------------------------------------
(* The model buffer only grows *)

\* p is a prefix of s
IsPrefix(p, s) == Len(p) <= Len(s) /\ SubSeq(s, 1, Len(p)) = p

-----------------------------------------------------------------------------
(* The provider default tables *)

\* C31: new_default() passes validate, and a configuration whose version
\* and language are valid passes validate once set_provider_kind has been
\* applied to it, for every provider kind and whatever its provider block
\* was before.
C31_DefaultsPassValidate ==
    /\ validate(new_default) = Ok
    /\ (cfg = new_default /\ verdict # Pending) => verdict = Ok
    /\ (/\ applied # <<>>
        /\ cfg.version = CURRENT_VERSION
        /\ cfg.language \in allowed_languages)
          => (/\ validate(cfg) = Ok
              /\ verdict \in {Pending, Ok}
              /\ cfg.provider.kind = applied[Len(applied)])

\* validate has accepted a configuration that set_provider_kind moved to
\* OpenRouter and then to Ollama
C31_Witness ==
    /\ pc = "config"
    /\ applied = <<"OpenRouter", "Ollama">>
    /\ cfg.language = "ar"
    /\ cfg.ui_mode = "Cli"
    /\ verdict = Ok

=============================================================================
